---- MODULE Spec2Model ----
(***************************************************************************)
(* The cross-system synchronisation engine (class SyncService) of the CRM  *)
(* integration: configuration registry, active-run table, bounded history, *)
(* field mapper, conflict detector / resolver and the run orchestrator.    *)
(*                                                                         *)
(* A run is an async function; between two awaits its code is one atomic   *)
(* step of the JavaScript event loop.  Each action below is one such step: *)
(* the call of startSync up to the first await, or the continuation that   *)
(* runs when an awaited call settles: a connector call, resolveConflicts   *)
(* (ResolveSettles), or executeSyncOperation itself, after which startSync *)
(* resumes (StartSyncResumes).  The connectors                             *)
(* (dynamics365Service, nav2017Service, cosmosdbService) are the           *)
(* environment: the value a call settles with is chosen with \E.           *)
(***************************************************************************)
EXTENDS Integers, Sequences, FiniteSets, TLC

VARIABLES
  now,                 \* the wall clock read by Date.now() / new Date()
  syncConfigurations,  \* SyncService.syncConfigurations : id -> configuration
  activeSyncs,         \* SyncService.activeSyncs : run id -> the run that owns the status object
  syncHistory,         \* SyncService.syncHistory : sequence of SyncResult, newest first
  runs,                \* the in-flight invocations of startSync (one per slot)
  lastCall,            \* observation: what the most recent call of startSync did
  started,             \* observation: number of startSync calls that registered a run
  updates,             \* observation: number of updateSyncConfiguration calls
  probe                \* inputs and result of the functions exercised on their own

vars == <<now, syncConfigurations, activeSyncs, syncHistory, runs, lastCall,
          started, updates, probe>>

----------------------------------------------------------------------------
(* Bounds of the model *)

MaxTime == 1

MaxStarts == 1

MaxActive == 1

MaxUpdates == 1

MaxRecords == 2

MaxHistRuns == 102

(* Program constants *)

HistoryCap == 100

----------------------------------------------------------------------------
(* Values *)

\* JavaScript undefined and null as field values
Undef == "undefined"

Null == "null"

\* a timestamp that is absent (falsy), and one that does not parse (NaN)
NoTs == -1

InvalidTs == -2

Slots == {1, 2}

ConfigIds == {"customers", "products"}

KnownSystems == {"dynamics365", "nav2017", "cosmosdb"}

Min(a, b) == IF a < b THEN a ELSE b

\* obj[field] of a JavaScript object: undefined when the property is missing
Get(obj, f) == IF f \in DOMAIN obj THEN obj[f] ELSE Undef

\* Object.assign(target, src) / { ...target, ...src }
Assign(target, src) ==
  [f \in DOMAIN target \cup DOMAIN src |->
     IF f \in DOMAIN src THEN src[f] ELSE target[f]]

\* !value for the values of the model
Falsy(v) == v \in {Undef, Null, ""}

----------------------------------------------------------------------------
(* Configurations *)

Mapping(sf, tf, tr, req) ==
  [sourceField |-> sf, targetField |-> tf, transformation |-> tr, required |-> req]

CustomerMappings ==
  << Mapping("accountid", "No", "direct", TRUE),
     Mapping("name", "Name", "direct", TRUE),
     Mapping("emailaddress1", "E_Mail", "direct", FALSE) >>

ProductMappings ==
  << Mapping("productNumber", "productnumber", "direct", TRUE),
     Mapping("name", "name", "direct", TRUE) >>

initializeDefaultConfigurations ==
  [c \in ConfigIds |->
     IF c = "customers"
     THEN [id |-> "customers", source |-> "dynamics365", targets |-> <<"nav2017">>,
           mappings |-> CustomerMappings, conflictResolution |-> "source-wins",
           enabled |-> TRUE, lastSync |-> NoTs, object |-> 0]
     ELSE [id |-> "products", source |-> "cosmosdb",
           targets |-> <<"dynamics365", "nav2017">>,
           mappings |-> ProductMappings, conflictResolution |-> "manual",
           enabled |-> TRUE, lastSync |-> NoTs, object |-> 0]]

----------------------------------------------------------------------------
(* Conflict resolution rules *)

RuleNames == {"source-wins", "target-wins", "newest-wins"}

\* new Date(ts) > new Date(ts2): false as soon as one side is an invalid date
DateGreater(a, b) == a >= 0 /\ b >= 0 /\ a > b

NewestWins(conflict) ==
  IF DateGreater(conflict.sourceTimestamp, conflict.targetTimestamp)
  THEN conflict.sourceValue ELSE conflict.targetValue

\* conflictResolutionRules.get(strategy)(conflict), for strategy \in RuleNames
ResolutionRule(strategy, conflict) ==
  CASE strategy = "source-wins" -> conflict.sourceValue
    [] strategy = "target-wins" -> conflict.targetValue
    [] strategy = "newest-wins" -> NewestWins(conflict)

----------------------------------------------------------------------------
(* Field mapper *)

\* a source record that is null: reading a property of it throws a TypeError
NullRecord == [isNull |-> "true"]

\* typeof value === 'string'
IsString(v) == v \notin {Undef, Null}

\* the strings of the model: as written, in upper case, in lower case
CaseForms ==
  { <<"Acme", "ACME", "acme">>, <<"Bolt", "BOLT", "bolt">>,
    <<"Other", "OTHER", "other">>, <<"A1", "A1", "a1">>, <<"P1", "P1", "p1">>,
    <<"", "", "">> }

CaseFormsOf(v) == CHOOSE w \in CaseForms : v \in {w[1], w[2], w[3]}

\* typeof value === 'string' ? value.toUpperCase() : value
Upper(v) == IF IsString(v) THEN CaseFormsOf(v)[2] ELSE v

\* typeof value === 'string' ? value.toLowerCase() : value
Lower(v) == IF IsString(v) THEN CaseFormsOf(v)[3] ELSE v

\* the switch on mapping.transformation (no customTransformation is configured)
Transform(tr, v) ==
  CASE tr = "uppercase" -> Upper(v)
    [] tr = "lowercase" -> Lower(v)
    [] OTHER -> v

\* sourceRecord[mapping.sourceField] of a null record throws in the first
\* iteration of the loop; without mappings nothing is read
MappingThrows(sourceRecord, mappings) == sourceRecord = NullRecord /\ Len(mappings) > 0

\* the mapping that wrote mappedData[tf] last
LastMappingFor(mappings, tf) ==
  CHOOSE k \in DOMAIN mappings :
    /\ mappings[k].targetField = tf
    /\ \A l \in DOMAIN mappings : mappings[l].targetField = tf => l <= k

applyMappings(sourceRecord, mappings) ==
  [tf \in {mappings[k].targetField : k \in DOMAIN mappings} |->
     LET m == mappings[LastMappingFor(mappings, tf)]
     IN  Transform(m.transformation, Get(sourceRecord, m.sourceField))]

----------------------------------------------------------------------------
(* Conflict detector *)

GetTs(obj, f) == IF f \in DOMAIN obj THEN obj[f] ELSE NoTs

\* existingRecord.modifiedon || existingRecord.lastModified || new Date().toISOString()
TargetTimestamp(existingRecord, t) ==
  IF GetTs(existingRecord, "modifiedon") # NoTs THEN GetTs(existingRecord, "modifiedon")
  ELSE IF GetTs(existingRecord, "lastModified") # NoTs
       THEN GetTs(existingRecord, "lastModified")
       ELSE t

\* variant: every difference is a conflict, whatever the target value
IsConflictAnyDifference(sourceValue, targetValue) == sourceValue # targetValue

IsConflict(sourceValue, targetValue) ==
  sourceValue # targetValue /\ targetValue # Undef /\ targetValue # Null

RECURSIVE DetectFrom(_, _, _, _, _)
DetectFrom(mappedData, existingRecord, mappings, k, t) ==
  IF k > Len(mappings) THEN << >>
  ELSE LET sourceValue == Get(mappedData, mappings[k].targetField)
           targetValue == Get(existingRecord, mappings[k].targetField)
           rest == DetectFrom(mappedData, existingRecord, mappings, k + 1, t)
       IN  IF IsConflict(sourceValue, targetValue)
           THEN << [field |-> mappings[k].targetField,
                    sourceValue |-> sourceValue,
                    targetValue |-> targetValue,
                    sourceTimestamp |-> t,
                    targetTimestamp |-> TargetTimestamp(existingRecord, t),
                    resolutionStrategy |-> "pending"] >> \o rest
           ELSE rest

\* detectConflicts at clock reading t
detectConflicts(mappedData, existingRecord, mappings, t) ==
  DetectFrom(mappedData, existingRecord, mappings, 1, t)

----------------------------------------------------------------------------
(* Conflict resolver *)

ResolveThrows(strategy) == strategy \notin RuleNames /\ strategy # "manual"

\* variant: manual resolution that keeps the target value
ResolvedValueManualTarget(conflict, strategy) ==
  IF strategy = "manual" THEN conflict.targetValue
  ELSE ResolutionRule(strategy, conflict)

\* the value resolveConflicts stores in resolvedData for one conflict
ResolvedValue(conflict, strategy) ==
  IF strategy = "manual" THEN conflict.sourceValue
  ELSE ResolutionRule(strategy, conflict)

\* variant: the conflicts are left as detected
StampPending(conflict, strategy) == conflict

Stamp(conflict, strategy) ==
  [conflict EXCEPT !.resolutionStrategy =
     IF strategy = "manual" THEN "manual-review-required" ELSE strategy]

\* the conflict that wrote resolvedData[f] last
LastConflictFor(conflicts, f) ==
  CHOOSE k \in DOMAIN conflicts :
    /\ conflicts[k].field = f
    /\ \A l \in DOMAIN conflicts : conflicts[l].field = f => l <= k

\* resolveConflicts, when it does not throw: the resolved data and the input
\* conflicts as the loop leaves them (the conflict objects are stamped in place)
resolveConflicts(conflicts, strategy) ==
  [resolvedData |->
     [f \in {conflicts[k].field : k \in DOMAIN conflicts} |->
        ResolvedValue(conflicts[LastConflictFor(conflicts, f)], strategy)],
   conflicts |-> [k \in DOMAIN conflicts |-> Stamp(conflicts[k], strategy)]]

----------------------------------------------------------------------------
(* One invocation of startSync: its locals and the SyncStatus object it owns *)

None == << >>

Some(x) == << x >>

EmptyMap == [k \in {} |-> 0]

MapSet(map, k, v) == [x \in DOMAIN map \cup {k} |-> IF x = k THEN v ELSE map[x]]

MapDelete(map, k) == [x \in DOMAIN map \ {k} |-> map[x]]

IdleRun ==
  [pc |-> "idle", id |-> <<"", 0>>, configurationId |-> "", configuration |-> None,
   dryRun |-> FALSE,
   \* the SyncStatus object
   status |-> "running", startTime |-> 0, progress |-> <<0, 1>>,
   processedRecords |-> 0, totalRecords |-> 0, errors |-> << >>, conflicts |-> << >>,
   \* locals of executeSyncOperation
   sourceData |-> << >>, i |-> 0, j |-> 0, mappedOf |-> << >>, operations |-> << >>,
   successfulRecords |-> 0, failedRecords |-> 0, touched |-> FALSE,
   \* the endTime of the result executeSyncOperation returned, and what the
   \* awaited resolveConflicts will settle with
   endTime |-> NoTs, pending |-> None,
   \* observations: the connector calls issued so far, what the source fetch
   \* settled with, and the number of records whose processing raised an exception
   serial |-> 0, fetch |-> "pending", lookups |-> << >>, writes |-> << >>, thrown |-> 0]

Cfg(r) == r.configuration[1]

\* line 622-635: the SyncStatus a call of startSync registers
NewRun(configurationId, configuration, dryRun, t, n) ==
  [IdleRun EXCEPT !.pc = "fetching", !.id = <<configurationId, t>>,
                  !.configurationId = configurationId,
                  !.configuration = Some(configuration), !.dryRun = dryRun,
                  !.startTime = t, !.serial = n]

\* which connector fetchSourceData calls ("none": it returns [] without a call,
\* "throw": the default branch of its switch)
SourceConnector(source, configuration) ==
  CASE source = "dynamics365" -> IF configuration.id = "customers" THEN "dynamics365" ELSE "none"
    [] source = "nav2017" -> IF configuration.id = "customers" THEN "nav2017" ELSE "none"
    [] source = "cosmosdb" -> IF configuration.id = "products" THEN "cosmosdb" ELSE "none"
    [] OTHER -> "throw"

\* variant: the key is the targetField of the last required mapping
KeyFieldLastRequired(mappings) ==
  IF \E k \in DOMAIN mappings : mappings[k].required
  THEN Some(mappings[CHOOSE k \in DOMAIN mappings :
                       /\ mappings[k].required
                       /\ \A l \in DOMAIN mappings : mappings[l].required => l <= k].targetField)
  ELSE None

\* configuration.mappings.find(m => m.required)?.targetField
KeyField(mappings) ==
  IF \E k \in DOMAIN mappings : mappings[k].required
  THEN Some(mappings[CHOOSE k \in DOMAIN mappings :
                       /\ mappings[k].required
                       /\ \A l \in DOMAIN mappings : mappings[l].required => k <= l].targetField)
  ELSE None

\* which connector fetchTargetRecord calls ("none": it returns null without a call)
TargetLookupConnector(target, mappedData, configuration) ==
  LET keyField == KeyField(configuration.mappings)
  IN  IF keyField = None \/ Falsy(Get(mappedData, keyField[1])) THEN "none"
      ELSE CASE target = "dynamics365" ->
                  IF configuration.id = "customers" THEN "dynamics365" ELSE "none"
             [] target = "nav2017" ->
                  IF configuration.id = "customers" THEN "nav2017" ELSE "none"
             [] target = "cosmosdb" ->
                  IF configuration.id = "products" THEN "cosmosdb" ELSE "none"
             [] OTHER -> "none"

Target(r) == Cfg(r).targets[r.j]

MappedData(r) == r.mappedOf[r.i]

\* the await of fetchTargetRecord for target j of record i
BeginTarget(r) ==
  LET conn == TargetLookupConnector(Target(r), MappedData(r), Cfg(r))
  IN  [r EXCEPT !.pc = "lookup",
                !.lookups = IF conn = "none" THEN @
                            ELSE Append(@, [connector |-> conn, record |-> r.i,
                                            key |-> MappedData(r)[KeyField(Cfg(r).mappings)[1]]])]

RecordError(r, cause, t) ==
  [code |-> "RECORD_PROCESSING_ERROR", cause |-> cause, timestamp |-> t, record |-> r.i]

\* variant: progress computed from the index of the next record
ProgressByIndex(processedRecords, totalRecords) ==
  <<(processedRecords + 1) * 100, totalRecords>>

\* (processedRecords / totalRecords) * 100 as the fraction <<numerator, denominator>>
Progress(processedRecords, totalRecords) == <<processedRecords * 100, totalRecords>>

RECURSIVE BeginRecord(_, _)
\* variant: a record-level catch that does not count the record as failed
CatchUncounted(r, cause, t) ==
  BeginRecord([r EXCEPT !.errors = Append(@, RecordError(r, cause, t)),
                        !.i = @ + 1], t)

\* line 742-750: the record-level catch, then the next iteration of the loop
Catch(r, cause, t) ==
  BeginRecord([r EXCEPT !.failedRecords = @ + 1,
                        !.errors = Append(@, RecordError(r, cause, t)),
                        !.i = @ + 1], t)

\* line 737-740: all targets of record i are done
RecordDone(r, t) ==
  BeginRecord([r EXCEPT !.processedRecords = @ + 1,
                        !.progress = Progress(r.processedRecords + 1, r.totalRecords),
                        !.touched = TRUE,
                        !.i = @ + 1], t)

\* an exception is raised while record i is processed
Raise(r) == [r EXCEPT !.thrown = @ + 1]

\* line 696-702: the loop head for record i, up to the first await of the record
BeginRecord(r, t) ==
  IF r.i > Len(r.sourceData) THEN [r EXCEPT !.pc = "return", !.endTime = t]
  ELSE IF MappingThrows(r.sourceData[r.i], Cfg(r).mappings)
       THEN Catch(Raise([r EXCEPT !.mappedOf = Append(@, NullRecord)]), "mapping", t)
       ELSE LET m == [r EXCEPT !.mappedOf =
                         Append(@, applyMappings(r.sourceData[r.i], Cfg(r).mappings)),
                               !.j = 1]
            IN  IF Len(Cfg(r).targets) = 0 THEN RecordDone(m, t) ELSE BeginTarget(m)

\* line 734-735: successfulRecords++ and the next target
TargetDone(r, t) ==
  LET n == [r EXCEPT !.successfulRecords = @ + 1]
  IN  IF r.j < Len(Cfg(r).targets) THEN BeginTarget([n EXCEPT !.j = @ + 1])
      ELSE RecordDone(n, t)

----------------------------------------------------------------------------
(* The environment: what the connectors may answer *)

\* cosmosdbService catches every error and returns {success: false};
\* the other two connectors may also reject
ConnectorOutcomes(conn) ==
  IF conn = "cosmosdb" THEN {"ok", "fail"} ELSE {"ok", "fail", "throw"}

SourceRecordsOf(configurationId) ==
  IF configurationId = "customers"
  THEN { [accountid |-> "A1", name |-> "Acme"], NullRecord }
  ELSE { [productNumber |-> "P1", name |-> "Bolt"], NullRecord }

RECURSIVE SeqsUpTo(_, _)
SeqsUpTo(S, n) ==
  IF n = 0 THEN { << >> }
  ELSE LET shorter == SeqsUpTo(S, n - 1)
       IN  shorter \cup { Append(q, x) : q \in { p \in shorter : Len(p) = n - 1 }, x \in S }

\* an existing target record as the lookup may return it for mappedData: equal
\* to it, differing in the second mapped field, or with that field null
ExistingVariants == {"same", "diff", "diff-old", "diff-new", "missing"}

EngineVariants == {"same", "diff"}

Existing(mappedData, mappings, variant, maxT) ==
  LET f == mappings[Min(2, Len(mappings))].targetField
  IN  CASE variant = "same" -> mappedData
        [] variant = "diff" -> [mappedData EXCEPT ![f] = "Other"]
        [] variant = "diff-old" -> Assign([mappedData EXCEPT ![f] = "Other"], [modifiedon |-> 0])
        [] variant = "diff-new" -> Assign([mappedData EXCEPT ![f] = "Other"], [modifiedon |-> maxT])
        [] variant = "missing" -> [mappedData EXCEPT ![f] = Null]

----------------------------------------------------------------------------
(* Run termination (startSync, after executeSyncOperation settles) *)

\* operation.mappedData is a reference to the record's mappedData object
OperationView(r, op) == Assign(op, [mappedData |-> r.mappedOf[op.record]])

Observed(r) ==
  [serial |-> r.serial, dryRun |-> r.dryRun, lookups |-> r.lookups, writes |-> r.writes,
   fetch |-> r.fetch, thrown |-> r.thrown, cancelled |-> (r.status = "cancelled"),
   sourceData |-> r.sourceData, configuration |-> Cfg(r),
   planned |-> [k \in DOMAIN r.operations |-> OperationView(r, r.operations[k])]]

\* variant: a run that reaches the end of the loop is completed
TerminalStatusCompleted(failedRecords) == "completed"

\* line 759: the status of the SyncResult executeSyncOperation returns
TerminalStatus(failedRecords) ==
  IF failedRecords > 0 THEN "completed-with-errors" ELSE "completed"

\* line 753-770: the SyncResult executeSyncOperation returned
SyncResult(r) ==
  [id |-> r.id, configurationId |-> Cfg(r).id,
   status |-> TerminalStatus(r.failedRecords),
   startTime |-> r.startTime, endTime |-> r.endTime,
   processedRecords |-> r.processedRecords,
   successfulRecords |-> r.successfulRecords,
   failedRecords |-> r.failedRecords,
   conflicts |-> r.conflicts, errors |-> r.errors,
   operations |-> IF r.dryRun
                  THEN Some([k \in DOMAIN r.operations |-> OperationView(r, r.operations[k])])
                  ELSE None,
   observed |-> Observed(r)]

\* line 652-670: the SyncResult built in the catch of startSync
ErrorResult(r, t) ==
  [id |-> r.id, configurationId |-> r.configurationId,
   status |-> "failed",
   startTime |-> r.startTime, endTime |-> t,
   processedRecords |-> r.processedRecords,
   successfulRecords |-> 0,
   failedRecords |-> r.processedRecords,
   conflicts |-> r.conflicts,
   errors |-> Append(r.errors, [code |-> "SYNC_EXECUTION_ERROR", cause |-> "fetch",
                                timestamp |-> t, record |-> 0]),
   operations |-> None,
   observed |-> Observed(r)]

\* line 641-644: unshift and truncate
UnshiftCapped(history, result) ==
  LET h == << result >> \o history
  IN  IF Len(h) > HistoryCap THEN SubSeq(h, 1, HistoryCap) ELSE h

\* variant: the catch path that stores no result
UnshiftDropped(history, result) == history

\* line 672: unshift in the catch path
Unshift(history, result) == << result >> \o history

\* the effects on the shared tables of a continuation of executeSyncOperation
\* that left run s in state r (this.activeSyncs.set(syncStatus.id, syncStatus))
Settle(s, r) ==
  /\ activeSyncs' = IF r.touched THEN MapSet(activeSyncs, r.id, s) ELSE activeSyncs
  /\ runs' = [runs EXCEPT ![s] = [r EXCEPT !.touched = FALSE]]
  /\ UNCHANGED <<syncHistory, syncConfigurations>>

\* the runs after run s is over and its configuration object became c: the
\* other runs that hold the same object see the assignment
Sharing(s, c) ==
  [u \in Slots |->
     IF u = s THEN IdleRun
     ELSE IF /\ runs[u].configuration # None
             /\ Cfg(runs[u]).id = c.id /\ Cfg(runs[u]).object = c.object
          THEN [runs[u] EXCEPT !.configuration = Some(c)]
          ELSE runs[u]]

\* line 638-676: startSync resumes after its await of executeSyncOperation
\* (pc = "return": it returned a result; "throw": it threw)
StartSyncResumes(s) ==
  LET r == runs[s]
  IN  /\ r.pc \in {"return", "throw"}
      /\ UNCHANGED <<now, lastCall, started, updates, probe>>
      /\ activeSyncs' = MapDelete(activeSyncs, r.id)
      /\ IF r.pc = "return"
         THEN LET c == [Cfg(r) EXCEPT !.lastSync = r.endTime]
              IN  /\ syncHistory' = UnshiftCapped(syncHistory, SyncResult(r))
                  /\ syncConfigurations' = MapSet(syncConfigurations, r.configurationId, c)
                  /\ runs' = Sharing(s, c)
         ELSE /\ syncHistory' = Unshift(syncHistory, ErrorResult(r, now))
              /\ runs' = [runs EXCEPT ![s] = IdleRun]
              /\ UNCHANGED syncConfigurations

----------------------------------------------------------------------------
(* Actions *)

NoProbe == [fn |-> "none"]

\* the service after its constructor
Constructed ==
  /\ now = 0
  /\ syncConfigurations = initializeDefaultConfigurations
  /\ activeSyncs = EmptyMap
  /\ syncHistory = << >>
  /\ runs = [s \in Slots |-> IdleRun]
  /\ lastCall = [op |-> "none", arg |-> "", force |-> FALSE, result |-> ""]
  /\ started = 0
  /\ updates = 0

Init == Constructed /\ probe = NoProbe

FreeSlot == CHOOSE s \in Slots : runs[s].pc = "idle" /\ \A u \in Slots : runs[u].pc = "idle" => s <= u

\* variant: the guard with the test of enabled inverted
RejectedWhenEnabled(configuration, force) == configuration.enabled /\ ~force

\* line 618: the guard that rejects a disabled configuration
Rejected(configuration, force) == ~configuration.enabled /\ ~force

\* startSync(configurationId, {force, dryRun}) up to its first await
StartSync(configurationId, force, dryRun, maxStarts) ==
  /\ UNCHANGED <<now, syncConfigurations, syncHistory, updates, probe>>
  /\ \/ /\ configurationId \notin DOMAIN syncConfigurations
        /\ lastCall' = [op |-> "startSync", arg |-> configurationId, force |-> force,
                        result |-> "not-found"]
        /\ UNCHANGED <<activeSyncs, runs, started>>
     \/ /\ configurationId \in DOMAIN syncConfigurations
        /\ Rejected(syncConfigurations[configurationId], force)
        /\ lastCall' = [op |-> "startSync", arg |-> configurationId, force |-> force,
                        result |-> "disabled"]
        /\ UNCHANGED <<activeSyncs, runs, started>>
     \/ /\ configurationId \in DOMAIN syncConfigurations
        /\ ~Rejected(syncConfigurations[configurationId], force)
        /\ started < maxStarts
        /\ \E s \in Slots : runs[s].pc = "idle"
        /\ LET r == NewRun(configurationId, syncConfigurations[configurationId],
                           dryRun, now, started + 1)
           IN  /\ runs' = [runs EXCEPT ![FreeSlot] = r]
               /\ activeSyncs' = MapSet(activeSyncs, r.id, FreeSlot)
        /\ started' = started + 1
        /\ lastCall' = [op |-> "startSync", arg |-> configurationId, force |-> force,
                        result |-> "registered"]

\* line 691-696: fetchSourceData settles; the loop starts
FetchSettles(s, outcome, sourceData) ==
  LET r == runs[s]
      conn == SourceConnector(Cfg(r).source, Cfg(r))
  IN  /\ r.pc = "fetching"
      /\ UNCHANGED <<now, lastCall, started, updates, probe>>
      /\ \/ /\ conn = "throw" \/ (conn \notin {"none", "throw"} /\ outcome = "throw")
            /\ outcome = "throw" /\ sourceData = << >>
            /\ Settle(s, [r EXCEPT !.pc = "throw", !.fetch = "throw"])
         \/ /\ conn # "throw"
            /\ outcome # "throw"
            /\ conn = "none" => outcome = "ok"
            /\ outcome = "fail" \/ conn = "none" => sourceData = << >>
            /\ Settle(s, BeginRecord([r EXCEPT !.sourceData = sourceData,
                                               !.totalRecords = Len(sourceData),
                                               !.fetch = IF conn = "none" THEN "none"
                                                         ELSE outcome,
                                               !.touched = TRUE,
                                               !.i = 1], now))

\* which connector method executeOperation calls ("throw": unknown target)
WriteConnector(target) == IF target \in KnownSystems THEN target ELSE "throw"

\* the key executeOperation passes to the connector's update
UpdateKey(target, mappedData, mappings) ==
  CASE target = "dynamics365" -> Get(mappedData, mappings[1].targetField)
    [] target = "nav2017" -> Get(mappedData, "No")
    [] OTHER -> Get(mappedData, "id")

\* variant: the write is executed whatever the options
ExecutesAlways(dryRun) == TRUE

\* line 730: if (!options?.dryRun)
Executes(dryRun) == ~dryRun

\* line 716-732: plan the operation and, unless dry run, call executeOperation
PlanAndExecute(r, existingRecord, lookup, before, t) ==
  LET operation == [type |-> IF existingRecord # None THEN "update" ELSE "create",
                    source |-> Cfg(r).source, target |-> Target(r), record |-> r.i,
                    targetRecord |-> existingRecord,
                    \* observations: what the lookup and the write settled with,
                    \* and mappedData as it stood when the lookup settled
                    lookup |-> lookup, before |-> before,
                    written |-> IF ~Executes(r.dryRun) THEN "skipped" ELSE "pending"]
      p == [r EXCEPT !.operations = Append(@, operation)]
  IN  IF ~Executes(r.dryRun) THEN TargetDone(p, t)
      ELSE [p EXCEPT !.pc = "write",
                     !.writes =
                        IF WriteConnector(Target(r)) = "throw" THEN @
                        ELSE Append(@, [target |-> Target(r), type |-> operation.type,
                                        record |-> r.i,
                                        key |-> IF operation.type = "update"
                                                THEN UpdateKey(Target(r), MappedData(r),
                                                               Cfg(r).mappings)
                                                ELSE Undef,
                                        data |-> MappedData(r)])]

\* variant: the resolved values are not merged
MergeSkipped(mappedData, resolvedData) == mappedData

\* line 712: Object.assign(mappedData, resolvedData)
Merge(mappedData, resolvedData) == Assign(mappedData, resolvedData)

\* line 702-711: fetchTargetRecord settled with existingRecord (None for null);
\* with conflicts, up to the await of resolveConflicts, which has stamped the
\* conflicts it was given unless it threw
AfterLookup(r, existingRecord, lookup, t) ==
  IF existingRecord = None THEN PlanAndExecute(r, existingRecord, lookup, MappedData(r), t)
  ELSE LET conflicts == detectConflicts(MappedData(r), existingRecord[1], Cfg(r).mappings, t)
       IN  IF Len(conflicts) = 0 THEN PlanAndExecute(r, existingRecord, lookup, MappedData(r), t)
           ELSE IF ResolveThrows(Cfg(r).conflictResolution)
                THEN [r EXCEPT !.pc = "resolve", !.conflicts = @ \o conflicts,
                               !.pending = Some([rejected |-> TRUE,
                                                 existingRecord |-> existingRecord,
                                                 lookup |-> lookup,
                                                 resolvedData |-> EmptyMap])]
                ELSE LET res == resolveConflicts(conflicts, Cfg(r).conflictResolution)
                     IN  [r EXCEPT !.pc = "resolve", !.conflicts = @ \o res.conflicts,
                                   !.pending = Some([rejected |-> FALSE,
                                                     existingRecord |-> existingRecord,
                                                     lookup |-> lookup,
                                                     resolvedData |-> res.resolvedData])]

\* line 711-732: the await of resolveConflicts is over; the record-level catch
\* if it threw, else the merge, the operation and the write
AfterResolve(r, t) ==
  LET p == r.pending[1]
      q == [r EXCEPT !.pending = None]
  IN  IF p.rejected THEN Catch(Raise(q), "resolve", t)
      ELSE PlanAndExecute([q EXCEPT !.mappedOf[r.i] = Merge(@, p.resolvedData)],
                          p.existingRecord, p.lookup, MappedData(r), t)

\* the value fetchTargetRecord returns for what the connector answered
LookupResult(r, outcome, variant, maxT) ==
  IF outcome = "found"
  THEN Some(Existing(MappedData(r), Cfg(r).mappings, variant, maxT))
  ELSE None

\* fetchTargetRecord settles
LookupSettles(s, outcome, variant, maxT) ==
  LET r == runs[s]
      conn == TargetLookupConnector(Target(r), MappedData(r), Cfg(r))
  IN  /\ r.pc = "lookup"
      /\ UNCHANGED <<now, lastCall, started, updates, probe>>
      /\ IF conn = "none" THEN outcome = "none"
         ELSE outcome \in {"found", "absent"} \cup (ConnectorOutcomes(conn) \ {"ok"})
      /\ outcome = "found" \/ variant = "same"
      /\ Settle(s, AfterLookup(r, LookupResult(r, outcome, variant, maxT), outcome, now))

\* resolveConflicts settles
ResolveSettles(s) ==
  LET r == runs[s]
  IN  /\ r.pc = "resolve"
      /\ UNCHANGED <<now, lastCall, started, updates, probe>>
      /\ Settle(s, AfterResolve(r, now))

\* observation: what the write of the last planned operation settled with
Written(r, outcome) == [r EXCEPT !.operations[Len(r.operations)].written = outcome]

\* executeOperation settles
WriteSettles(s, outcome) ==
  LET r == runs[s]
      conn == WriteConnector(Target(r))
  IN  /\ r.pc = "write"
      /\ UNCHANGED <<now, lastCall, started, updates, probe>>
      /\ IF conn = "throw" THEN outcome = "throw" ELSE outcome \in ConnectorOutcomes(conn)
      /\ \/ /\ outcome = "throw"
            /\ Settle(s, Catch(Raise(Written(r, outcome)), "write", now))
         \/ /\ outcome # "throw"
            /\ Settle(s, TargetDone(Written(r, outcome), now))

\* cancelSync(syncId)
CancelSync(syncId) ==
  /\ UNCHANGED <<now, syncConfigurations, activeSyncs, syncHistory, lastCall, started,
                 updates, probe>>
  /\ IF syncId \in DOMAIN activeSyncs
     THEN runs' = [runs EXCEPT ![activeSyncs[syncId]].status = "cancelled"]
     ELSE UNCHANGED runs

\* updateSyncConfiguration(id, updates): { ...existing, ...updates, updatedAt }
UpdateSyncConfiguration(id, upd, maxUpdates) ==
  /\ updates < maxUpdates
  /\ updates' = updates + 1
  /\ UNCHANGED <<now, activeSyncs, syncHistory, runs, lastCall, started, probe>>
  /\ IF id \in DOMAIN syncConfigurations
     THEN syncConfigurations' =
            MapSet(syncConfigurations, id,
                   Assign(Assign(syncConfigurations[id], upd),
                          [updatedAt |-> now, object |-> updates + 1]))
     ELSE UNCHANGED syncConfigurations

\* the clock advances
Tick(maxT) ==
  /\ now < maxT
  /\ now' = now + 1
  /\ UNCHANGED <<syncConfigurations, activeSyncs, syncHistory, runs, lastCall, started,
                 updates, probe>>

----------------------------------------------------------------------------
(* Spec: one run at a time, explored in depth; configuration updates and     *)
(* start attempts between runs, cancellation and clock ticks at any point.   *)

ConfigUpdates ==
  { [enabled |-> FALSE], [conflictResolution |-> "target-wins"],
    [conflictResolution |-> "newest-wins"], [conflictResolution |-> "last-write-wins"],
    [source |-> "sap"] }

\* the invocations of startSync in flight: called and not yet settled
InFlight == { s \in Slots : runs[s].pc # "idle" }

\* getActiveSyncs(): the values of the active-run table, each SyncStatus object
\* named by the invocation that owns it
getActiveSyncs == { activeSyncs[k] : k \in DOMAIN activeSyncs }

RunStep(s) ==
  \/ \E outcome \in {"ok", "fail", "throw"} :
       \E d \in SeqsUpTo(SourceRecordsOf(runs[s].configurationId), MaxRecords) :
         FetchSettles(s, outcome, d)
  \/ \E outcome \in {"none", "found", "absent", "fail", "throw"}, variant \in EngineVariants :
       LookupSettles(s, outcome, variant, MaxTime)
  \/ \E outcome \in {"ok", "fail", "throw"} : WriteSettles(s, outcome)
  \/ ResolveSettles(s)
  \/ StartSyncResumes(s)

Next ==
  \/ \E c \in ConfigIds \cup {"orders"}, force \in BOOLEAN, dryRun \in BOOLEAN :
       Cardinality(InFlight) < MaxActive /\ StartSync(c, force, dryRun, MaxStarts)
  \/ \E s \in Slots : RunStep(s)
  \/ \E c \in ConfigIds, t \in 0..MaxTime : CancelSync(<<c, t>>)
  \/ \E c \in ConfigIds, upd \in ConfigUpdates :
       InFlight = {} /\ UpdateSyncConfiguration(c, upd, MaxUpdates)
  \/ Tick(MaxTime)

Spec == Init /\ [][Next]_vars

----------------------------------------------------------------------------
(* FairSpec: runs of the configurations as they stand (the defaults, or with *)
(* the source or the strategy changed to an unknown one), where every        *)
(* awaited connector call settles.                                           *)

LiveUpdates == { [conflictResolution |-> "last-write-wins"], [source |-> "sap"] }

LiveNext ==
  \/ \E c \in ConfigIds, dryRun \in BOOLEAN :
       Cardinality(InFlight) < MaxActive /\ StartSync(c, FALSE, dryRun, MaxStarts)
  \/ \E s \in Slots : RunStep(s)
  \/ \E c \in ConfigIds, t \in 0..MaxTime : CancelSync(<<c, t>>)
  \/ \E c \in ConfigIds, upd \in LiveUpdates :
       InFlight = {} /\ started = 0 /\ UpdateSyncConfiguration(c, upd, MaxUpdates)
  \/ Tick(MaxTime)

FairSpec == Init /\ [][LiveNext]_vars /\ \A s \in Slots : WF_vars(RunStep(s))

----------------------------------------------------------------------------
(* HistSpec: long sequences of runs over an empty source, to fill the       *)
(* history.  The source connector answers every call; a run fails once the  *)
(* source of the configuration has been changed to an unknown system.       *)

HistNext ==
  \/ InFlight = {} /\ StartSync("customers", FALSE, FALSE, MaxHistRuns)
  \/ \E s \in Slots : FetchSettles(s, "ok", << >>)
  \/ \E s \in Slots :
       /\ runs[s].pc = "fetching"
       /\ SourceConnector(Cfg(runs[s]).source, Cfg(runs[s])) = "throw"
       /\ FetchSettles(s, "throw", << >>)
  \/ InFlight = {} /\ UpdateSyncConfiguration("customers", [source |-> "sap"], MaxUpdates)
  \/ \E s \in Slots : StartSyncResumes(s)

HistSpec == Init /\ [][HistNext]_vars

----------------------------------------------------------------------------
(* ProbeSpec: the conflict resolution rules applied to conflicts drawn from *)
(* a bounded set.                                                           *)

MaxTs == 2

ProbeConflicts ==
  { [field |-> "Name", sourceValue |-> "Acme", targetValue |-> tv,
     sourceTimestamp |-> st, targetTimestamp |-> tt, resolutionStrategy |-> "pending"] :
      tv \in {"Other", "AcmeCorp"}, st \in {InvalidTs} \cup (0..MaxTs),
      tt \in {InvalidTs} \cup (0..MaxTs) }

ProbeInit ==
  /\ Constructed
  /\ probe \in { [fn |-> "rule", strategy |-> st, conflict |-> c, done |-> FALSE,
                  result |-> Undef] : st \in RuleNames, c \in ProbeConflicts }

\* conflictResolutionRules.get(strategy)(conflict)
ApplyRule ==
  /\ probe.fn = "rule" /\ ~probe.done
  /\ probe' = [probe EXCEPT !.done = TRUE,
                            !.result = ResolutionRule(probe.strategy, probe.conflict)]
  /\ UNCHANGED <<now, syncConfigurations, activeSyncs, syncHistory, runs, lastCall,
                 started, updates>>

ProbeNext == ApplyRule

ProbeSpec == ProbeInit /\ [][ProbeNext]_vars

----------------------------------------------------------------------------
(* Claims *)

Results == { syncHistory[k] : k \in DOMAIN syncHistory }

Elems(q) == { q[k] : k \in DOMAIN q }

KnownStrategies == RuleNames \cup {"manual"}

\* C1 (as stated): a run over N fetched records of which K raise an exception
\* during per-record processing ends completed or completed-with-errors with
\* processedRecords = N, failedRecords = K and exactly K entries in errors.
C1_Resilience ==
  \A h \in Results :
    h.observed.fetch # "throw" =>
      /\ h.status \in {"completed", "completed-with-errors"}
      /\ h.processedRecords = Len(h.observed.sourceData)
      /\ h.failedRecords = h.observed.thrown
      /\ Len(h.errors) = h.observed.thrown

\* C2 (as stated): after any sequence of runs, whatever their outcome, the
\* history holds at most HistoryCap results and the result of the run that
\* finished last is at index 0.
C2_HistoryBound ==
  /\ Len(syncHistory) <= HistoryCap
  /\ (InFlight = {} /\ started > 0) => syncHistory[1].observed.serial = started

\* C3 (as stated): once cancelSync has marked a run whose current record is not
\* the last one, the loop starts no further record: the step that ends the
\* current record ends the run, and its SyncResult has status cancelled.
C3_Cancellation ==
  [][\A s \in Slots :
       (/\ runs[s].pc \in {"lookup", "write"}
        /\ runs[s].status = "cancelled"
        /\ runs[s].i < Len(runs[s].sourceData))
       => \/ runs'[s].pc # "idle" /\ runs'[s].i = runs[s].i
          \/ /\ runs'[s].pc = "idle"
             /\ syncHistory'[1].id = runs[s].id
             /\ syncHistory'[1].status = "cancelled"]_vars

\* C4: a call of startSync on a disabled configuration without force is
\* rejected and changes neither the active-run table nor the history nor any
\* run (no status registered, no result appended, no connector call issued).
C4_DisabledRejected ==
  [][\A c \in ConfigIds :
       (/\ lastCall' # lastCall \/ started' # started
        /\ lastCall'.op = "startSync" /\ lastCall'.arg = c /\ ~lastCall'.force
        /\ ~syncConfigurations[c].enabled)
       => /\ lastCall'.result = "disabled"
          /\ UNCHANGED <<activeSyncs, syncHistory, runs, started, syncConfigurations>>]_vars

C4_Witness ==
  /\ lastCall.op = "startSync" /\ lastCall.result = "disabled" /\ ~lastCall.force
  /\ lastCall.arg \in ConfigIds /\ ~syncConfigurations[lastCall.arg].enabled
  /\ activeSyncs = EmptyMap /\ syncHistory = << >> /\ started = 0

ValidTs(t) == t >= 0

NewestProbe == probe.fn = "rule" /\ probe.done /\ probe.strategy = "newest-wins"

\* C5 (as stated): under newest-wins the value of the strictly newer
\* timestamp wins, and on equal timestamps the source value wins (timestamps
\* that do not parse have no newer side and are left out).
C5_NewestWinsTieSource ==
  NewestProbe =>
    LET c == probe.conflict
    IN  (ValidTs(c.sourceTimestamp) /\ ValidTs(c.targetTimestamp)) =>
          /\ c.sourceTimestamp > c.targetTimestamp => probe.result = c.sourceValue
          /\ c.targetTimestamp > c.sourceTimestamp => probe.result = c.targetValue
          /\ c.sourceTimestamp = c.targetTimestamp => probe.result = c.sourceValue

\* the targets configured after position j
LaterTargets(targets, j) == { targets[k] : k \in { l \in DOMAIN targets : l > j } }

\* C6 (as stated): when the write to one target fails (the connector call
\* rejects) for a record, the error is recorded in the run's errors, the run
\* is not aborted, and every target configured after the failing one is still
\* written for that record.
C6_PerTargetFailure ==
  \A h \in Results :
    \A k \in DOMAIN h.observed.planned :
      LET op == h.observed.planned[k]
          targets == h.observed.configuration.targets
      IN  op.written = "throw" =>
            /\ h.status # "failed"
            /\ \E e \in Elems(h.errors) : e.record = op.record
            /\ \A j \in DOMAIN targets :
                 targets[j] = op.target =>
                   \A t \in LaterTargets(targets, j) :
                     \E w \in Elems(h.observed.writes) :
                       w.record = op.record /\ w.target = t

\* C7 (as stated): a run whose configuration names an unknown conflict
\* strategy fails before it starts: it is never registered as an active run,
\* and no result of such a run reports anything but failure or holds a write.
C7_UnknownStrategyFailsFast ==
  /\ \A s \in getActiveSyncs : Cfg(runs[s]).conflictResolution \in KnownStrategies
  /\ \A h \in Results :
       h.observed.configuration.conflictResolution \notin KnownStrategies =>
         h.status = "failed" /\ h.observed.writes = << >>

\* C8 (as stated): every failure caught during a run (of the source fetch, of
\* a target lookup, of a target write) has an entry in the run's errors.
C8_NothingSwallowed ==
  \A h \in Results :
    /\ h.observed.fetch \in {"fail", "throw"} =>
         \E e \in Elems(h.errors) : e.cause = "fetch"
    /\ \A op \in Elems(h.observed.planned) :
         /\ op.lookup \in {"fail", "throw"} =>
              \E e \in Elems(h.errors) : e.record = op.record
         /\ op.written \in {"fail", "throw"} =>
              \E e \in Elems(h.errors) : e.record = op.record

\* C9: the step in which a run terminates removes its id from the active-run
\* table and prepends a result carrying its id to the history; and, connector
\* calls settling, every registered run terminates.
C9_NoRunDisappears ==
  /\ [][\A s \in Slots :
          (runs[s].pc # "idle" /\ runs'[s].pc = "idle") =>
             /\ runs[s].id \notin DOMAIN activeSyncs'
             /\ Len(syncHistory') > 0
             /\ syncHistory'[1].id = runs[s].id
             /\ syncHistory'[1].observed.serial = runs[s].serial]_vars
  /\ \A s \in Slots : (runs[s].pc # "idle") ~> (runs[s].pc = "idle")

C9_Witness ==
  /\ started = 1 /\ InFlight = {} /\ activeSyncs = EmptyMap
  /\ Len(syncHistory) = 1 /\ syncHistory[1].observed.serial = 1
  /\ syncHistory[1].status = "failed"

\* C10 (as stated): if retrieving the source data fails, the run ends failed
\* with the failure in the errors of its result, executes no target write, and
\* the result is stored in the history (the run does not go on).
C10_FetchFailure ==
  /\ \A s \in InFlight : runs[s].fetch \notin {"fail", "throw"}
  /\ \A h \in Results :
       h.observed.fetch \in {"fail", "throw"} =>
         /\ h.status = "failed"
         /\ \E e \in Elems(h.errors) : e.cause = "fetch"
         /\ h.observed.writes = << >>

----------------------------------------------------------------------------
(* Claims C11..C20 *)

\* progress of a SyncStatus is the fraction <<numerator, denominator>>
ProgressIs(r) ==
  IF r.totalRecords = 0 THEN r.progress[1] = 0
  ELSE r.progress[1] * r.totalRecords = r.processedRecords * 100 * r.progress[2]

\* C11: in every state of a run processedRecords never decreases, progress
\* equals processedRecords / totalRecords * 100 (0 when totalRecords is 0) and
\* lies within 0..100, and progress = 100 implies processedRecords =
\* totalRecords; a run over zero source records ends completed with zero
\* processed records.
C11_Progress ==
  /\ [](\A s \in InFlight :
          LET r == runs[s]
          IN  /\ ProgressIs(r)
              /\ r.progress[2] > 0
              /\ 0 <= r.progress[1] /\ r.progress[1] <= 100 * r.progress[2]
              /\ r.progress[1] = 100 * r.progress[2] =>
                   r.processedRecords = r.totalRecords)
  /\ [](\A h \in Results :
          (h.observed.fetch # "throw" /\ h.observed.sourceData = << >>) =>
             h.status = "completed" /\ h.processedRecords = 0)
  /\ [][\A s \in Slots :
          (runs[s].pc # "idle" /\ runs'[s].pc # "idle") =>
             runs'[s].processedRecords >= runs[s].processedRecords]_vars

C11_Witness ==
  \E s \in InFlight :
    /\ runs[s].totalRecords = 2 /\ runs[s].processedRecords = 1
    /\ runs[s].progress = <<100, 2>>

\* C12 (as stated): a dry run never calls a connector's create or update, and
\* the result of a run carries the list of planned operations if and only if
\* the run was a dry run.
C12_DryRunListIff ==
  /\ \A s \in InFlight :
       runs[s].dryRun => runs[s].pc # "write" /\ runs[s].writes = << >>
  /\ \A h \in Results :
       /\ h.observed.dryRun => h.observed.writes = << >>
       /\ (h.operations # None) <=> h.observed.dryRun

\* C12 (amended): a dry run never calls a connector's create or update and
\* runs every other step (fetch, lookups, planning, counters); the result of a
\* run whose source fetch did not throw carries the full list of planned
\* operations if and only if the run was a dry run, and the result of a run
\* whose source fetch threw carries no list, dry run or not.
C12_DryRun ==
  /\ \A s \in InFlight :
       runs[s].dryRun => runs[s].pc # "write" /\ runs[s].writes = << >>
  /\ \A h \in Results :
       /\ h.observed.fetch = "throw" => h.operations = None
       /\ h.observed.fetch # "throw" => ((h.operations # None) <=> h.observed.dryRun)
       /\ h.observed.dryRun =>
            /\ h.observed.writes = << >>
            /\ h.observed.fetch # "pending"
            /\ h.observed.fetch # "throw" =>
                 /\ h.operations = Some(h.observed.planned)
                 /\ h.successfulRecords = Len(h.observed.planned)
                 /\ h.processedRecords + h.failedRecords = Len(h.observed.sourceData)
                 /\ \A op \in Elems(h.observed.planned) : op.written = "skipped"
                 /\ \A l \in Elems(h.observed.lookups) :
                      \E op \in Elems(h.observed.planned) \cup Elems(h.errors) :
                        op.record = l.record

C12_Witness ==
  \E h \in Results :
    /\ h.observed.dryRun /\ h.status = "completed"
    /\ h.operations # None /\ Len(h.operations[1]) = 2
    /\ Len(h.observed.lookups) = 2 /\ h.observed.writes = << >>
    /\ \E op \in Elems(h.operations[1]) : op.type = "update"

----------------------------------------------------------------------------
(* DetectSpec: detectConflicts applied to mapped data, existing records and  *)
(* mappings drawn from bounded sets.                                         *)

MaxMappings == 2

ProbeFields == {"No", "Name"}

ProbeValues == {"Acme", "Other", Undef, Null}

ProbeMappings ==
  SeqsUpTo({ Mapping("f", tf, "direct", TRUE) : tf \in ProbeFields }, MaxMappings)

DetectInit ==
  /\ Constructed
  /\ probe \in { [fn |-> "detect", mappedData |-> m, existingRecord |-> e, mappings |-> ms,
                  given |-> [mappedData |-> m, existingRecord |-> e],
                  done |-> FALSE, result |-> << >>] :
                  m \in [ProbeFields -> ProbeValues], e \in [ProbeFields -> ProbeValues],
                  ms \in ProbeMappings }

\* detectConflicts(mappedData, existingRecord, mappings)
ApplyDetect ==
  /\ probe.fn = "detect" /\ ~probe.done
  /\ probe' = [probe EXCEPT !.done = TRUE,
                            !.result = detectConflicts(probe.mappedData, probe.existingRecord,
                                                       probe.mappings, now)]
  /\ UNCHANGED <<now, syncConfigurations, activeSyncs, syncHistory, runs, lastCall,
                 started, updates>>

DetectNext == ApplyDetect

DetectSpec == DetectInit /\ [][DetectNext]_vars

DetectProbe == probe.fn = "detect" /\ probe.done

\* mapped[F] !== existing[F] and existing[F] is neither null nor undefined
Differs(m) ==
  /\ probe.mappedData[m.targetField] # probe.existingRecord[m.targetField]
  /\ probe.existingRecord[m.targetField] \notin {Undef, Null}

\* C13: detectConflicts yields one conflict per mapping whose targetField F has
\* mapped[F] # existing[F] with existing[F] neither null nor undefined, and
\* none for any other mapping; the conflicts come in the order of the
\* mappings, each with the two values and resolutionStrategy pending, and the
\* inputs are left as given.
C13_ConflictDefinition ==
  DetectProbe =>
    LET expected == SelectSeq(probe.mappings, Differs)
    IN  /\ Len(probe.result) = Len(expected)
        /\ \A k \in DOMAIN probe.result :
             /\ probe.result[k].field = expected[k].targetField
             /\ probe.result[k].sourceValue = probe.mappedData[expected[k].targetField]
             /\ probe.result[k].targetValue = probe.existingRecord[expected[k].targetField]
             /\ probe.result[k].resolutionStrategy = "pending"
        /\ \A F \in ProbeFields :
             (\E k \in DOMAIN probe.result : probe.result[k].field = F)
               <=> (\E k \in DOMAIN probe.mappings : /\ probe.mappings[k].targetField = F
                                                     /\ Differs(probe.mappings[k]))
        /\ probe.mappedData = probe.given.mappedData
        /\ probe.existingRecord = probe.given.existingRecord

C13_Witness ==
  /\ DetectProbe
  /\ Len(probe.mappings) = 2 /\ probe.mappings[1].targetField = "Name"
  /\ probe.mappings[2].targetField = "No"
  /\ probe.existingRecord["No"] = Null /\ probe.mappedData["No"] = "Acme"
  /\ Len(probe.result) = 1 /\ probe.result[1].field = "Name"

----------------------------------------------------------------------------
(* ResolveSpec: resolveConflicts applied to the conflict lists the detector  *)
(* can produce, under every strategy and an unknown one.                     *)

DetectedConflicts ==
  { detectConflicts(m, e, ms, 0) :
      m \in [ProbeFields -> ProbeValues], e \in [ProbeFields -> ProbeValues],
      ms \in ProbeMappings }

ProbeStrategies == RuleNames \cup {"manual", "last-write-wins"}

ResolveInit ==
  /\ Constructed
  /\ probe \in { [fn |-> "resolve", conflicts |-> cs, strategy |-> st, done |-> FALSE,
                  thrown |-> FALSE, resolvedData |-> EmptyMap, stamped |-> cs] :
                  cs \in DetectedConflicts, st \in ProbeStrategies }

\* resolveConflicts(conflicts, strategy)
ApplyResolve ==
  /\ probe.fn = "resolve" /\ ~probe.done
  /\ IF ResolveThrows(probe.strategy)
     THEN probe' = [probe EXCEPT !.done = TRUE, !.thrown = TRUE]
     ELSE LET res == resolveConflicts(probe.conflicts, probe.strategy)
          IN  probe' = [probe EXCEPT !.done = TRUE,
                                     !.resolvedData = res.resolvedData,
                                     !.stamped = res.conflicts]
  /\ UNCHANGED <<now, syncConfigurations, activeSyncs, syncHistory, runs, lastCall,
                 started, updates>>

ResolveNext == ApplyResolve

ResolveSpec == ResolveInit /\ [][ResolveNext]_vars

ResolveProbe == probe.fn = "resolve" /\ probe.done /\ ~probe.thrown

\* C14: the map resolveConflicts returns holds, for every input conflict, its
\* sourceValue under source-wins and under manual and its targetValue under
\* target-wins, and nothing for other fields; every input conflict is stamped
\* with the strategy name, or with manual-review-required under manual.
C14_ResolverPerStrategy ==
  ResolveProbe =>
    /\ DOMAIN probe.resolvedData = { probe.conflicts[k].field : k \in DOMAIN probe.conflicts }
    /\ DOMAIN probe.stamped = DOMAIN probe.conflicts
    /\ \A k \in DOMAIN probe.conflicts :
         LET c == probe.conflicts[k]
         IN  /\ probe.strategy = "source-wins" => probe.resolvedData[c.field] = c.sourceValue
             /\ probe.strategy = "target-wins" => probe.resolvedData[c.field] = c.targetValue
             /\ probe.strategy = "manual" => probe.resolvedData[c.field] = c.sourceValue
             /\ probe.stamped[k] =
                  [c EXCEPT !.resolutionStrategy =
                     IF probe.strategy = "manual" THEN "manual-review-required"
                     ELSE probe.strategy]

C14_Witness ==
  /\ ResolveProbe /\ probe.strategy = "manual"
  /\ Len(probe.conflicts) = 2
  /\ probe.conflicts[1].field # probe.conflicts[2].field
  /\ probe.resolvedData["Name"] = probe.conflicts[1].sourceValue
  /\ probe.stamped[2].resolutionStrategy = "manual-review-required"

----------------------------------------------------------------------------
(* ConcSpec: invocations of startSync that overlap.  Connector calls all     *)
(* succeed and find no existing record; the source holds at most one record. *)

MaxConcurrent == 2

MaxConcStarts == 2

MaxConcRecords == 1

ConcNext ==
  \/ \E c \in ConfigIds :
       Cardinality(InFlight) < MaxConcurrent /\ StartSync(c, FALSE, FALSE, MaxConcStarts)
  \/ \E s \in Slots :
       \E d \in SeqsUpTo(SourceRecordsOf(runs[s].configurationId), MaxConcRecords) :
         FetchSettles(s, "ok", d)
  \/ \E s \in Slots, outcome \in {"none", "absent"} : LookupSettles(s, outcome, "same", MaxTime)
  \/ \E s \in Slots : WriteSettles(s, "ok")
  \/ Tick(MaxTime)
  \/ \E s \in Slots : StartSyncResumes(s)

ConcSpec == Init /\ [][ConcNext]_vars

\* C15 (as stated): two runs active at the same time have distinct run ids, and
\* every active run owns the entry of the active-run table under its id.
C15_DistinctRunIds ==
  /\ \A s \in InFlight, u \in InFlight : s # u => runs[s].id # runs[u].id
  /\ \A s \in InFlight :
       runs[s].id \in DOMAIN activeSyncs /\ activeSyncs[runs[s].id] = s

\* C16: a run whose source fetch did not throw ends completed if and only if
\* no record raised an exception (failedRecords = 0) and completed-with-errors
\* otherwise; the step that ends it stores its result at the head of the
\* history, sets the lastSync of its configuration to the endTime of the
\* result and removes the run from the active-run table.
C16_TerminalStatus ==
  /\ [](\A h \in Results :
          h.observed.fetch # "throw" =>
            /\ h.failedRecords = h.observed.thrown
            /\ (h.status = "completed") <=> (h.observed.thrown = 0)
            /\ (h.status = "completed-with-errors") <=> (h.observed.thrown > 0))
  /\ [][\A s \in Slots :
          (/\ runs[s].pc # "idle" /\ runs'[s].pc = "idle"
           /\ syncHistory'[1].observed.fetch # "throw")
          => /\ syncHistory'[1].id = runs[s].id
             /\ syncHistory'[1].observed.serial = runs[s].serial
             /\ syncHistory'[1].status \in {"completed", "completed-with-errors"}
             /\ syncConfigurations'[runs[s].configurationId].lastSync =
                  syncHistory'[1].endTime
             /\ runs[s].id \notin DOMAIN activeSyncs']_vars

C16_Witness ==
  /\ InFlight = {} /\ activeSyncs = EmptyMap /\ Len(syncHistory) = 1
  /\ syncHistory[1].status = "completed-with-errors"
  /\ syncHistory[1].observed.thrown = 1 /\ syncHistory[1].processedRecords = 1
  /\ syncHistory[1].endTime = 1
  /\ syncConfigurations[syncHistory[1].configurationId].lastSync = 1

\* the planned operation of result h that write w executes
OperationOf(h, w) ==
  CHOOSE op \in Elems(h.observed.planned) : op.record = w.record /\ op.target = w.target

\* field F of the mapped data conflicts with the existing record
Conflicting(mapped, existing, F) ==
  mapped[F] # Get(existing, F) /\ Get(existing, F) \notin {Undef, Null}

\* the value that wins for field F under the strategy, given the conflicts the
\* run recorded (newest-wins: the source value only if its timestamp is newer)
Winner(strategy, mapped, existing, F, conflicts) ==
  CASE strategy \in {"source-wins", "manual"} -> mapped[F]
    [] strategy = "target-wins" -> existing[F]
    [] strategy = "newest-wins" ->
         IF \A c \in Elems(conflicts) :
              c.field = F => c.sourceTimestamp <= c.targetTimestamp
         THEN existing[F] ELSE mapped[F]

\* C17: when the lookup found an existing record, the operation is an update
\* and the data written is mappedData as it stood when the lookup settled (for
\* the first target: the mapped data of the source record) with every
\* conflicting field replaced by the value that wins under the strategy (the
\* existing value under target-wins) and every other field unchanged.
C17_MergedBeforeWrite ==
  \A h \in Results :
    \A w \in Elems(h.observed.writes) :
      LET op == OperationOf(h, w)
          cfg == h.observed.configuration
      IN  /\ op.target = cfg.targets[1] =>
               op.before = applyMappings(h.observed.sourceData[w.record], cfg.mappings)
          /\ op.targetRecord # None =>
               /\ w.type = "update" /\ op.type = "update"
               /\ DOMAIN w.data = DOMAIN op.before
               /\ \A F \in DOMAIN op.before :
                    w.data[F] =
                      IF Conflicting(op.before, op.targetRecord[1], F)
                      THEN Winner(cfg.conflictResolution, op.before, op.targetRecord[1], F,
                                  h.conflicts)
                      ELSE op.before[F]

C17_Witness ==
  \E h \in Results :
    /\ h.observed.configuration.conflictResolution = "target-wins"
    /\ Len(h.observed.writes) = 1 /\ Len(h.conflicts) = 1
    /\ h.observed.writes[1].type = "update"
    /\ h.observed.planned[1].targetRecord = Some([No |-> "A1", Name |-> "Other", E_Mail |-> Undef])
    /\ h.observed.writes[1].data = [No |-> "A1", Name |-> "Other", E_Mail |-> Undef]
    /\ h.conflicts[1].field = "Name" /\ h.conflicts[1].sourceValue = "Acme"

\* the operations result h recorded for source record i, in order
OperationsOf(h, i) == SelectSeq(h.observed.planned, LAMBDA op : op.record = i)

\* the errors result h recorded for source record i
ErrorsOf(h, i) == { e \in Elems(h.errors) : e.record = i }

\* C18: for every source record whose processing raised no exception exactly
\* one operation is recorded per target, in the order of the targets, and for
\* a record whose processing raised one, one per target up to the point of the
\* exception; a connector lookup is keyed by the mapped value of the first
\* required mapping's targetField; the type of an operation is create if the
\* lookup returned no record and update otherwise.
C18_OperationPlanning ==
  \A h \in Results :
    LET cfg == h.observed.configuration
    IN  /\ \A i \in DOMAIN h.observed.sourceData :
             LET ops == OperationsOf(h, i)
             IN  /\ Len(ops) <= Len(cfg.targets)
                 /\ \A k \in DOMAIN ops : ops[k].target = cfg.targets[k]
                 /\ ErrorsOf(h, i) = {} => Len(ops) = Len(cfg.targets)
                 /\ \A e \in ErrorsOf(h, i) :
                      /\ e.cause = "mapping" => Len(ops) = 0
                      /\ e.cause = "write" => Len(ops) >= 1 /\ ops[Len(ops)].written = "throw"
        /\ \A op \in Elems(h.observed.planned) :
             /\ op.type \in {"create", "update"}
             /\ (op.type = "create") <=> (op.targetRecord = None)
             /\ (op.targetRecord # None) <=> (op.lookup = "found")
        /\ \A l \in Elems(h.observed.lookups) :
             \E k \in DOMAIN cfg.mappings :
               /\ cfg.mappings[k].required
               /\ \A j \in DOMAIN cfg.mappings : j < k => ~cfg.mappings[j].required
               /\ l.key = applyMappings(h.observed.sourceData[l.record],
                                        cfg.mappings)[cfg.mappings[k].targetField]

C18_Witness ==
  \E h \in Results :
    /\ h.configurationId = "customers" /\ h.status = "completed"
    /\ Len(h.observed.sourceData) = 2 /\ Len(h.observed.planned) = 2
    /\ h.observed.planned[1].type = "update" /\ h.observed.planned[2].type = "create"
    /\ Len(h.observed.lookups) = 2 /\ h.observed.lookups[1].key = "A1"

----------------------------------------------------------------------------
(* RegistrySpec: the configuration registry under sequences of calls of      *)
(* updateSyncConfiguration.                                                  *)

MaxRegistryUpdates == 2

RegistryUpdates ==
  { [source |-> s] : s \in KnownSystems }
    \cup { [targets |-> << t >>] : t \in KnownSystems }
    \cup { [targets |-> << >>], [enabled |-> FALSE], [mappings |-> << >>] }

RegistryNext ==
  \E c \in ConfigIds \cup {"orders"}, upd \in RegistryUpdates :
    UpdateSyncConfiguration(c, upd, MaxRegistryUpdates)

RegistrySpec == Init /\ [][RegistryNext]_vars

\* C19 (as stated): no stored configuration lists its source system among its
\* target systems.
C19_SourceNotInTargets ==
  \A c \in DOMAIN syncConfigurations :
    syncConfigurations[c].source \notin Elems(syncConfigurations[c].targets)

----------------------------------------------------------------------------
(* TimerSpec: the timer-triggered sync function (src/unnamed/part_013).      *)
(* The configuration documents live in the Cosmos container (probe.store);   *)
(* the clock counts minutes since the epoch.  Every await on the container   *)
(* settles with "ok" or "throw"; performSync never throws (it catches every  *)
(* error and returns a result).  The host starts an invocation only when the *)
(* previous one has returned.                                                *)

MaxClock == 5

TimerStart == 2

MaxTicks == 3

TimerConfigs == <<"a", "b">>

TimerIntervals == {1, 2}

StorageOutcomes == {"ok", "throw"}

ConfigDocs ==
  { s \in [ {TimerConfigs[k] : k \in DOMAIN TimerConfigs} ->
              [id : {TimerConfigs[k] : k \in DOMAIN TimerConfigs}, enabled : BOOLEAN,
               intervalMinutes : TimerIntervals, lastRun : {NoTs}] ] :
      \A c \in DOMAIN s : s[c].id = c }

\* shouldRunSync(config), with `new Date()` = clock
shouldRunSync(config, clock) ==
  LET lastRun == IF config.lastRun # NoTs THEN config.lastRun ELSE 0
      intervalMs == config.intervalMinutes
  IN  (clock - lastRun) >= intervalMs

\* getSyncConfigurations(context): the enabled documents, or [] when the query throws
getSyncConfigurations(store, outcome) ==
  IF outcome = "ok"
  THEN LET all == [k \in DOMAIN TimerConfigs |-> store[TimerConfigs[k]]]
           enabled(d) == d.enabled = TRUE
       IN  SelectSeq(all, enabled)
  ELSE << >>

\* the index of the next document, from position i on, that the loop of the
\* timer function hands to processSyncOperation; 0 when the loop ends
NextToRun(resources, i, clock) ==
  LET due == { j \in i..Len(resources) :
                 resources[j].enabled /\ shouldRunSync(resources[j], clock) }
  IN  IF due = {} THEN 0 ELSE CHOOSE j \in due : \A k \in due : j <= k

\* the timer function from position i of its loop up to its next await
TimerLoop(p, resources, i) ==
  LET j == NextToRun(resources, i, p.clock)
  IN  IF j = 0
      THEN [p EXCEPT !.pc = "updateSyncStatus", !.resources = resources,
                     !.status = "completed"]
      ELSE [p EXCEPT !.pc = "create", !.resources = resources, !.i = j,
                     !.config = resources[j], !.startedAt = p.clock,
                     !.previous = p.ran[resources[j].id]]

TimerInit ==
  /\ Constructed
  /\ probe \in { [fn |-> "timer", clock |-> TimerStart, ticks |-> 0, store |-> s,
                  pc |-> "idle", resources |-> << >>, i |-> 0,
                  config |-> s[TimerConfigs[1]], status |-> "none",
                  startedAt |-> NoTs, previous |-> NoTs,
                  ran |-> [c \in DOMAIN s |-> NoTs],
                  count |-> [c \in DOMAIN s |-> 0]] : s \in ConfigDocs }

TimerUnchanged ==
  UNCHANGED <<now, syncConfigurations, activeSyncs, syncHistory, runs, lastCall,
              started, updates>>

\* a minute passes
TimerAdvance ==
  /\ probe.fn = "timer" /\ probe.clock < MaxClock
  /\ probe' = [probe EXCEPT !.clock = @ + 1]
  /\ TimerUnchanged

\* the host invokes the timer function
TimerTrigger ==
  /\ probe.fn = "timer" /\ probe.pc = "idle" /\ probe.ticks < MaxTicks
  /\ probe' = [probe EXCEPT !.pc = "query", !.ticks = @ + 1, !.status = "none",
                            !.count = [c \in DOMAIN probe.store |-> 0]]
  /\ TimerUnchanged

\* the query of getSyncConfigurations settles; the loop runs up to its first await
QuerySettles(outcome) ==
  /\ probe.fn = "timer" /\ probe.pc = "query"
  /\ probe' = TimerLoop(probe, getSyncConfigurations(probe.store, outcome), 1)
  /\ TimerUnchanged

\* processSyncOperation: syncContainer.items.create(syncOperation) settles
CreateSettles(outcome) ==
  /\ probe.fn = "timer" /\ probe.pc = "create"
  /\ probe' = [probe EXCEPT !.pc = IF outcome = "ok" THEN "performSync"
                                   ELSE "failedOperation"]
  /\ TimerUnchanged

\* processSyncOperation: performSync returns its result
PerformSyncReturns ==
  /\ probe.fn = "timer" /\ probe.pc = "performSync"
  /\ probe' = [probe EXCEPT !.pc = "upsertOperation",
                            !.ran[probe.config.id] = probe.clock,
                            !.count[probe.config.id] = @ + 1]
  /\ TimerUnchanged

\* processSyncOperation: syncContainer.items.upsert(syncOperation) settles;
\* on success config.lastRun is set on the document in memory
UpsertOperationSettles(outcome) ==
  /\ probe.fn = "timer" /\ probe.pc = "upsertOperation"
  /\ probe' = IF outcome = "ok"
              THEN [probe EXCEPT !.pc = "upsertConfig", !.config.lastRun = probe.clock]
              ELSE [probe EXCEPT !.pc = "failedOperation"]
  /\ TimerUnchanged

\* processSyncOperation: syncContainer.items.upsert(config) settles; on
\* success the document is stored and the loop goes on with the next one
UpsertConfigSettles(outcome) ==
  /\ probe.fn = "timer" /\ probe.pc = "upsertConfig"
  /\ probe' = IF outcome = "ok"
              THEN TimerLoop([probe EXCEPT !.store[probe.config.id] = probe.config],
                             probe.resources, probe.i + 1)
              ELSE [probe EXCEPT !.pc = "failedOperation"]
  /\ TimerUnchanged

\* processSyncOperation, catch: the upsert of the failed operation settles
\* (either way), the error is rethrown and ends the loop of the timer function
FailedOperationSettles ==
  /\ probe.fn = "timer" /\ probe.pc = "failedOperation"
  /\ probe' = [probe EXCEPT !.pc = "updateSyncStatus", !.status = "failed"]
  /\ TimerUnchanged

\* updateSyncStatus settles (either way) and the invocation returns or rethrows
UpdateSyncStatusSettles ==
  /\ probe.fn = "timer" /\ probe.pc = "updateSyncStatus"
  /\ probe' = [probe EXCEPT !.pc = "idle"]
  /\ TimerUnchanged

TimerNext ==
  \/ TimerAdvance
  \/ TimerTrigger
  \/ \E outcome \in StorageOutcomes : QuerySettles(outcome)
  \/ \E outcome \in StorageOutcomes : CreateSettles(outcome)
  \/ PerformSyncReturns
  \/ \E outcome \in StorageOutcomes : UpsertOperationSettles(outcome)
  \/ \E outcome \in StorageOutcomes : UpsertConfigSettles(outcome)
  \/ FailedOperationSettles
  \/ UpdateSyncStatusSettles

TimerSpec == TimerInit /\ [][TimerNext]_vars

TimerRunning == probe.fn = "timer" /\ probe.pc = "performSync"

\* C20, first half: a configuration that the timer function runs is enabled
\* and due by its stored lastRun (never ran counts as the epoch), and an
\* enabled configuration that never ran is due at any tick.
C20_RunsOnlyEnabledAndDue ==
  /\ TimerRunning =>
       /\ probe.store[probe.config.id].enabled
       /\ shouldRunSync(probe.store[probe.config.id], probe.startedAt)
  /\ probe.fn = "timer" =>
       \A c \in DOMAIN probe.store :
         probe.store[c].lastRun = NoTs => shouldRunSync(probe.store[c], probe.clock)

\* C20: the second tick runs configuration b, which ran before and is due again.
C20_RunsWitness ==
  /\ TimerRunning /\ probe.config.id = "b" /\ probe.ticks = 2
  /\ probe.store["b"].lastRun # NoTs /\ probe.store["a"].enabled

\* C20 (as stated): a configuration that the timer function runs is enabled
\* and due; once its run has returned and the invocation is over, its stored
\* lastRun is the time of that run or later; and a run of a configuration
\* starts no sooner than intervalMinutes after its previous run returned.
C20_ScheduledInvocation ==
  /\ C20_RunsOnlyEnabledAndDue
  /\ (probe.fn = "timer" /\ probe.pc = "idle") =>
       \A c \in DOMAIN probe.store :
         probe.ran[c] # NoTs =>
           probe.store[c].lastRun # NoTs /\ probe.store[c].lastRun >= probe.ran[c]
  /\ TimerRunning =>
       \/ probe.previous = NoTs
       \/ probe.startedAt - probe.previous >= probe.config.intervalMinutes

----------------------------------------------------------------------------
(* RetrySpec: retryOperation(operation, maxRetries, delay) of the sync       *)
(* utilities (src/unnamed/part_008).  The operation is the environment: each *)
(* invocation resolves with a value or rejects with an error.  probe.waits   *)
(* lists the times handed to setTimeout.                                     *)

MaxRetriesBound == 3

MaxDelay == 2

RetryValues == {"v1", "v2"}

RetryErrors == {"e1", "e2"}

RECURSIVE Pow2(_)
Pow2(n) == IF n <= 0 THEN 1 ELSE 2 * Pow2(n - 1)

waitTimeConstant(delay, attempt) == delay

\* const waitTime = delay * Math.pow(2, attempt - 1)
waitTime(delay, attempt) == delay * Pow2(attempt - 1)

RetryInit ==
  /\ Constructed
  /\ probe \in { [fn |-> "retry", maxRetries |-> m, delay |-> d, pc |-> "start",
                  attempt |-> 0, calls |-> 0, errors |-> << >>, waits |-> << >>,
                  settled |-> "pending", value |-> Undef] :
                  m \in 0..MaxRetriesBound, d \in 0..MaxDelay }

\* the loop of retryOperation from `attempt` up to its next await
RetryLoop(p, attempt) ==
  IF attempt <= p.maxRetries
  THEN [p EXCEPT !.pc = "operation", !.attempt = attempt, !.calls = @ + 1]
  ELSE [p EXCEPT !.pc = "done", !.settled = "rejected",
                 !.value = IF p.errors = << >> THEN Undef
                           ELSE p.errors[Len(p.errors)]]

\* retryOperation is called
RetryInvoke ==
  /\ probe.fn = "retry" /\ probe.pc = "start"
  /\ probe' = RetryLoop(probe, 1)
  /\ TimerUnchanged

\* return await operation(), the operation resolves
OperationResolves(v) ==
  /\ probe.fn = "retry" /\ probe.pc = "operation"
  /\ probe' = [probe EXCEPT !.pc = "done", !.settled = "resolved", !.value = v]
  /\ TimerUnchanged

\* the operation rejects: the last attempt rethrows, another one waits
OperationRejects(e) ==
  /\ probe.fn = "retry" /\ probe.pc = "operation"
  /\ probe' = IF probe.attempt = probe.maxRetries
              THEN [probe EXCEPT !.pc = "done", !.settled = "rejected", !.value = e,
                                 !.errors = Append(@, e)]
              ELSE [probe EXCEPT !.pc = "setTimeout", !.errors = Append(@, e),
                                 !.waits = Append(@, waitTime(probe.delay, probe.attempt))]
  /\ TimerUnchanged

\* the timer of the backoff fires and the loop goes on
BackoffElapses ==
  /\ probe.fn = "retry" /\ probe.pc = "setTimeout"
  /\ probe' = RetryLoop(probe, probe.attempt + 1)
  /\ TimerUnchanged

RetryNext ==
  \/ RetryInvoke
  \/ \E v \in RetryValues : OperationResolves(v)
  \/ \E e \in RetryErrors : OperationRejects(e)
  \/ BackoffElapses

RetrySpec == RetryInit /\ [][RetryNext]_vars

RetryProbe == probe.fn = "retry"

\* C21: retryOperation invokes the operation at most maxRetries times; once an
\* attempt resolved it settles with that value and invokes nothing more (every
\* earlier attempt failed); once maxRetries attempts failed it rejects with the
\* error of the last one; and the k-th time handed to setTimeout, after failed
\* attempt k, is delay * 2^(k-1), one per failed attempt but the last.
C21_RetryWrapper ==
  RetryProbe =>
    /\ probe.calls <= probe.maxRetries
    /\ probe.settled = "resolved" =>
         /\ probe.pc = "done" /\ probe.value \in RetryValues
         /\ probe.calls = Len(probe.errors) + 1
    /\ (probe.maxRetries >= 1 /\ Len(probe.errors) = probe.maxRetries) =>
         /\ probe.pc = "done" /\ probe.settled = "rejected"
         /\ probe.calls = probe.maxRetries
         /\ probe.value = probe.errors[probe.maxRetries]
    /\ (probe.settled = "rejected" /\ probe.maxRetries >= 1) =>
         Len(probe.errors) = probe.maxRetries
    /\ \A k \in DOMAIN probe.waits : probe.waits[k] = probe.delay * Pow2(k - 1)
    /\ Len(probe.waits) =
         IF Len(probe.errors) = probe.maxRetries /\ probe.maxRetries >= 1
         THEN probe.maxRetries - 1 ELSE Len(probe.errors)
    /\ probe.pc = "operation" => probe.calls = Len(probe.errors) + 1
    /\ probe.pc = "setTimeout" => probe.calls = Len(probe.errors)

C21_Witness ==
  /\ RetryProbe /\ probe.maxRetries = 3 /\ probe.delay = 2
  /\ probe.settled = "rejected" /\ probe.calls = 3
  /\ probe.errors = <<"e1", "e1", "e2">> /\ probe.value = "e2"
  /\ probe.waits = <<2, 4>>

----------------------------------------------------------------------------
(* UtilDetectSpec: the exported sync utility detectConflicts(sourceRecord,   *)
(* targetRecord, mapping) of src/unnamed/part_008, applied to records whose  *)
(* fields may be missing, null or set.                                       *)

UtilSourceRecords == { [id |-> "A1", name |-> v] : v \in ProbeValues \ {Undef} }
                       \cup { [id |-> "A1"] }

UtilTargetRecords ==
  UNION { [D -> ProbeValues \ {Undef}] : D \in SUBSET ProbeFields }

UtilFieldMappings ==
  SeqsUpTo({ [sourceField |-> "name", targetField |-> tf] : tf \in ProbeFields },
           MaxMappings)

\* getNestedValue(obj, path) for a path of one key
getNestedValue(obj, path) == IF path \in DOMAIN obj THEN obj[path] ELSE Undef

RECURSIVE UtilDetectFrom(_, _, _, _)
UtilDetectFrom(sourceRecord, targetRecord, fieldMappings, k) ==
  IF k > Len(fieldMappings) THEN << >>
  ELSE LET sourceValue == getNestedValue(sourceRecord, fieldMappings[k].sourceField)
           targetValue == getNestedValue(targetRecord, fieldMappings[k].targetField)
           rest == UtilDetectFrom(sourceRecord, targetRecord, fieldMappings, k + 1)
       IN  IF sourceValue # targetValue
           THEN << [id |-> << sourceRecord.id, fieldMappings[k].sourceField >>,
                    recordId |-> sourceRecord.id,
                    field |-> fieldMappings[k].targetField,
                    sourceValue |-> sourceValue,
                    targetValue |-> targetValue,
                    conflictType |-> "field_mismatch",
                    resolution |-> "manual"] >> \o rest
           ELSE rest

\* the utility detectConflicts(sourceRecord, targetRecord, mapping)
UtilDetectConflicts(sourceRecord, targetRecord, mapping) ==
  UtilDetectFrom(sourceRecord, targetRecord, mapping.fieldMappings, 1)

UtilDetectInit ==
  /\ Constructed
  /\ probe \in { [fn |-> "utilDetect", sourceRecord |-> s, targetRecord |-> t,
                  mapping |-> [fieldMappings |-> ms], done |-> FALSE, result |-> << >>] :
                  s \in UtilSourceRecords, t \in UtilTargetRecords,
                  ms \in UtilFieldMappings }

\* detectConflicts(sourceRecord, targetRecord, mapping) of the utilities
ApplyUtilDetect ==
  /\ probe.fn = "utilDetect" /\ ~probe.done
  /\ probe' = [probe EXCEPT !.done = TRUE,
                            !.result = UtilDetectConflicts(probe.sourceRecord,
                                                           probe.targetRecord, probe.mapping)]
  /\ TimerUnchanged

UtilDetectNext == ApplyUtilDetect

UtilDetectSpec == UtilDetectInit /\ [][UtilDetectNext]_vars

\* C22 (as stated): every conflict the utility detectConflicts returns has
\* differing source and target values and a target value that is neither null
\* nor undefined; a field missing from the target record yields no conflict.
C22_UtilConflictDefinition ==
  (probe.fn = "utilDetect" /\ probe.done) =>
    \A k \in DOMAIN probe.result :
      /\ probe.result[k].sourceValue # probe.result[k].targetValue
      /\ probe.result[k].targetValue \notin {Undef, Null}
      /\ probe.result[k].field \in DOMAIN probe.targetRecord

----------------------------------------------------------------------------
(* LeakSpec: one run of the customers configuration after its targets were   *)
(* set to two systems that are both looked up, under each known strategy.    *)
(* The source holds at most one record.                                      *)

MaxLeakRecords == 1

LeakUpdates ==
  { [targets |-> <<"nav2017", "dynamics365">>, conflictResolution |-> st] :
      st \in RuleNames \cup {"manual"} }

LeakNext ==
  \/ \E upd \in LeakUpdates :
       InFlight = {} /\ started = 0 /\ UpdateSyncConfiguration("customers", upd, MaxUpdates)
  \/ \E dryRun \in BOOLEAN :
       InFlight = {} /\ StartSync("customers", FALSE, dryRun, MaxStarts)
  \/ \E s \in Slots :
       \E d \in SeqsUpTo(SourceRecordsOf(runs[s].configurationId), MaxLeakRecords) :
         FetchSettles(s, "ok", d)
  \/ \E s \in Slots, outcome \in {"none", "found", "absent", "fail", "throw"},
        variant \in ExistingVariants :
       LookupSettles(s, outcome, variant, MaxTime)
  \/ \E s \in Slots, outcome \in {"ok", "fail", "throw"} : WriteSettles(s, outcome)
  \/ Tick(MaxTime)
  \/ \E s \in Slots : ResolveSettles(s)
  \/ \E s \in Slots : StartSyncResumes(s)

LeakSpec == Init /\ [][LeakNext]_vars

\* C23 (as stated): for every operation a run recorded, the mapped data that
\* went into its target (as it stood when that target's lookup settled) is the
\* mapped data of the source record, and the mappedData the operation shows in
\* the end is that data with the target's own conflicting fields replaced by
\* the value that wins under the strategy: nothing of another target's
\* resolution is in it.
C23_TargetIsolation ==
  \A h \in Results :
    \A op \in Elems(h.observed.planned) :
      LET cfg == h.observed.configuration
          mapped == applyMappings(h.observed.sourceData[op.record], cfg.mappings)
      IN  /\ op.before = mapped
          /\ \A F \in DOMAIN mapped :
               op.mappedData[F] =
                 IF op.targetRecord # None /\ Conflicting(mapped, op.targetRecord[1], F)
                 THEN Winner(cfg.conflictResolution, mapped, op.targetRecord[1], F,
                             h.conflicts)
                 ELSE mapped[F]

----------------------------------------------------------------------------
(* OverlapSpec: updateSyncConfiguration called at any point, also while a    *)
(* run of the configuration is in flight.  The source fetch returns records  *)
(* or throws (a source no connector serves, a rejecting connector); lookups  *)
(* find no existing record and writes succeed; the source holds at most one  *)
(* record.                                                                   *)

OverlapNext ==
  \/ \E c \in ConfigIds :
       InFlight = {} /\ StartSync(c, FALSE, FALSE, MaxStarts)
  \/ \E c \in ConfigIds, upd \in ConfigUpdates :
       UpdateSyncConfiguration(c, upd, MaxUpdates)
  \/ \E s \in Slots :
       \E d \in SeqsUpTo(SourceRecordsOf(runs[s].configurationId), MaxConcRecords) :
         FetchSettles(s, "ok", d)
  \/ \E s \in Slots : FetchSettles(s, "throw", << >>)
  \/ \E s \in Slots, outcome \in {"none", "absent"} : LookupSettles(s, outcome, "same", MaxTime)
  \/ \E s \in Slots : WriteSettles(s, "ok")
  \/ Tick(MaxTime)
  \/ \E s \in Slots : StartSyncResumes(s)

OverlapSpec == Init /\ [][OverlapNext]_vars

\* C24 (as stated): the step that ends a run and stores its result leaves the
\* stored configuration of the run as it stood, updates made during the run
\* included, but for lastSync, which becomes the endTime of the result.
C24_UpdateNotLost ==
  [][ Len(syncHistory') > Len(syncHistory) =>
        LET c == syncHistory'[1].configurationId
        IN  syncHistory'[1].status # "failed" =>
              /\ syncConfigurations'[c] =
                   Assign(syncConfigurations[c], [lastSync |-> syncHistory'[1].endTime])
              /\ DOMAIN syncConfigurations' = DOMAIN syncConfigurations
              /\ \A d \in DOMAIN syncConfigurations \ {c} :
                   syncConfigurations'[d] = syncConfigurations[d] ]_vars

----------------------------------------------------------------------------
(* WriteSpec: runs that write, with the products configuration as it stands, *)
(* with cosmosdb as its target, without mappings or with mappings that       *)
(* change the case, and the customers configuration.  A write settles with   *)
(* success, with a returned error value, or by throwing.                     *)

WriteUpdates ==
  { [targets |-> <<"cosmosdb">>], [mappings |-> << >>],
    [mappings |-> << Mapping("productNumber", "productnumber", "lowercase", TRUE),
                     Mapping("name", "name", "uppercase", TRUE) >>] }

WriteNext ==
  \/ \E upd \in WriteUpdates :
       InFlight = {} /\ started = 0 /\ UpdateSyncConfiguration("products", upd, MaxUpdates)
  \/ \E c \in ConfigIds :
       InFlight = {} /\ StartSync(c, FALSE, FALSE, MaxStarts)
  \/ \E s \in Slots :
       \E d \in SeqsUpTo(SourceRecordsOf(runs[s].configurationId), MaxRecords) :
         FetchSettles(s, "ok", d)
  \/ \E s \in Slots, outcome \in {"none", "found", "absent", "fail"} :
       LookupSettles(s, outcome, "same", MaxTime)
  \/ \E s \in Slots, outcome \in {"ok", "fail", "throw"} : WriteSettles(s, outcome)
  \/ \E s \in Slots : StartSyncResumes(s)

WriteSpec == Init /\ [][WriteNext]_vars

\* the operations of result h whose write the connector carried out
Succeeded(h) ==
  { k \in DOMAIN h.observed.planned : h.observed.planned[k].written = "ok" }

\* C25 (as stated): in the result of a run that executes its operations,
\* successfulRecords counts no more (record, target) pairs than writes that
\* succeeded at the target system; a write the connector reports as failed,
\* by a returned error value as well, is not counted.
C25_FailedWriteNotCounted ==
  \A h \in Results :
    ~h.observed.dryRun => h.successfulRecords <= Cardinality(Succeeded(h))

\* C26 (as stated): no create operation is planned, nor a create issued to a
\* connector, for a (record, target) pair whose lookup failed with an error,
\* be it returned by the connector or thrown.
C26_NoCreateAfterFailedLookup ==
  \A h \in Results :
    /\ \A op \in Elems(h.observed.planned) :
         op.type = "create" => op.lookup \notin {"fail", "throw"}
    /\ \A w \in Elems(h.observed.writes) :
         w.type = "create" => OperationOf(h, w).lookup \notin {"fail", "throw"}

\* the RECORD_PROCESSING_ERROR entries of result h
RecordErrors(h) ==
  { k \in DOMAIN h.errors : h.errors[k].code = "RECORD_PROCESSING_ERROR" }

\* C27: in the result of every run whose source fetch did not throw,
\* processedRecords + failedRecords is the number of records fetched and the
\* number of RECORD_PROCESSING_ERROR entries in errors is failedRecords.
C27_RecordAccounting ==
  \A h \in Results :
    h.observed.fetch # "throw" =>
      /\ h.processedRecords + h.failedRecords = Len(h.observed.sourceData)
      /\ Cardinality(RecordErrors(h)) = h.failedRecords
      /\ Len(h.errors) = h.failedRecords

C27_Witness ==
  \E h \in Results :
    /\ h.observed.fetch = "ok" /\ Len(h.observed.sourceData) = 2
    /\ h.processedRecords = 1 /\ h.failedRecords = 1
    /\ Cardinality(RecordErrors(h)) = 1 /\ h.errors[1].record = 1

\* C28: in the result of a run whose configuration names a known strategy,
\* every recorded conflict is stamped with the name of that strategy, or with
\* manual-review-required when the strategy is manual; none is left pending.
C28_NoPendingConflict ==
  \A h \in Results :
    LET strategy == h.observed.configuration.conflictResolution
    IN  strategy \in KnownStrategies =>
          \A c \in Elems(h.conflicts) :
            /\ c.resolutionStrategy # "pending"
            /\ c.resolutionStrategy =
                 IF strategy = "manual" THEN "manual-review-required" ELSE strategy

C28_Witness ==
  \E h \in Results :
    /\ h.observed.configuration.conflictResolution = "manual"
    /\ Len(h.conflicts) = 2
    /\ h.conflicts[1].resolutionStrategy = "manual-review-required"
    /\ h.conflicts[2].resolutionStrategy = "manual-review-required"
    /\ Len(h.observed.planned) = 2 /\ h.observed.planned[2].type = "update"

\* C29 (as stated): when an invocation of the timer function is over and the
\* run of one configuration failed in it, every configuration after that one
\* in the list of the tick that was enabled and due has been run in the tick.
C29_TickIsolation ==
  (probe.fn = "timer" /\ probe.pc = "idle" /\ probe.status = "failed") =>
    \A j \in (probe.i + 1)..Len(probe.resources) :
      (probe.resources[j].enabled /\ shouldRunSync(probe.resources[j], probe.startedAt))
        => probe.count[probe.resources[j].id] >= 1

----------------------------------------------------------------------------
(* BatchSpec: createBatches(items, batchSize) of the sync utilities, one     *)
(* iteration of its loop per step.  The loop is sequential code: a step that *)
(* can be taken is taken.  MaxBatches cuts the runs that never leave the     *)
(* loop; it is larger than the number of batches of any run that ends.       *)

MaxItems == 3

MaxBatchSize == 3

MaxBatches == 5

BatchItems == SeqsUpTo({"x", "y"}, MaxItems)

BatchSizes == (0 - 1)..MaxBatchSize

\* the index Array.prototype.slice derives from its argument x
SliceIndex(x, len) ==
  IF x < 0 THEN (IF len + x < 0 THEN 0 ELSE len + x)
  ELSE Min(x, len)

\* items.slice(start, end)
Slice(items, start, end) ==
  SubSeq(items, SliceIndex(start, Len(items)) + 1, SliceIndex(end, Len(items)))

BatchInit ==
  /\ Constructed
  /\ probe \in { [fn |-> "createBatches", items |-> items, batchSize |-> b,
                  i |-> 0, batches |-> << >>, pc |-> "loop"] :
                  items \in BatchItems, b \in BatchSizes }

\* one evaluation of `i < items.length` and, if it holds, one iteration
BatchStep ==
  /\ probe.fn = "createBatches" /\ probe.pc = "loop"
  /\ Len(probe.batches) < MaxBatches
  /\ probe' = IF probe.i < Len(probe.items)
              THEN [probe EXCEPT !.batches = Append(@, Slice(probe.items, probe.i,
                                                             probe.i + probe.batchSize)),
                                 !.i = @ + probe.batchSize]
              ELSE [probe EXCEPT !.pc = "return"]
  /\ TimerUnchanged

BatchNext == BatchStep

BatchSpec == BatchInit /\ [][BatchNext]_vars /\ WF_vars(BatchStep)

RECURSIVE Flatten(_)
Flatten(batches) ==
  IF batches = << >> THEN << >> ELSE Head(batches) \o Flatten(Tail(batches))

\* what the claim says of the batches returned for batchSize >= 1
BatchesPartition ==
  (probe.fn = "createBatches" /\ probe.pc = "return" /\ probe.batchSize >= 1) =>
    /\ Flatten(probe.batches) = probe.items
    /\ \A k \in DOMAIN probe.batches :
         /\ Len(probe.batches[k]) <= probe.batchSize
         /\ k < Len(probe.batches) => Len(probe.batches[k]) = probe.batchSize
         /\ Len(probe.batches[k]) >= 1

\* the loop has made no more iterations than the list has items: the index
\* advances by at least one item per iteration
BatchesProgress ==
  probe.fn = "createBatches" => Len(probe.batches) <= Len(probe.items)

\* C30 (as stated): createBatches returns for every integer batchSize and every
\* finite list, after at most one iteration per item, and for batchSize >= 1
\* the batches concatenated are the list, each holds at most batchSize items
\* and only the last may hold fewer.
C30_CreateBatches ==
  /\ []BatchesProgress
  /\ <>(probe.pc = "return")
  /\ []BatchesPartition

====
